---- MODULE Spec2Model ----
(***************************************************************************)
(* BABE header verification (src/src/babe.rs): slot_number_to_epoch,       *)
(* start_verify_header and PendingVerify::finish.                          *)
(*                                                                         *)
(* The functions are pure: a behaviour is one call.  Init draws the inputs *)
(* of the call, the action applies the function and records what the call  *)
(* produced: a returned value (Ok / Err) or a panic.                       *)
(*                                                                         *)
(* u64 is modelled as 0 .. U64_MAX with checked arithmetic against         *)
(* U64_MAX, so that the overflow of checked_add is a case of the model.    *)
(***************************************************************************)
EXTENDS Integers, FiniteSets, Sequences, TLC

VARIABLES pc, config, call, result

vars == <<pc, config, call, result>>

(***************************************************************************)
(* Bounds of the model.                                                    *)
(***************************************************************************)
\* The largest value of the (scaled down) u64 type.
U64_MAX == 5
\* The largest block number of a header under verification.
MaxBlockNumber == 3
\* The largest slots_per_epoch of a genesis configuration.
MaxSlotsPerEpoch == 3
\* The largest length of EpochInformation::authorities, and the largest
\* authority_index of a claim.
MaxAuthorities == 1

U64 == 0 .. U64_MAX

(***************************************************************************)
(* Option, Result and the outcome of a panicking call.                     *)
(***************************************************************************)
None == [tag |-> "None"]
Some(x) == [tag |-> "Some", v |-> x]
Ok(x) == [tag |-> "Ok", v |-> x]
Err(e) == [tag |-> "Err", e |-> e]
Panic == [tag |-> "Panic"]

\* Option::unwrap / Result::unwrap: the value, or a panic.  A call that has
\* panicked itself yields nothing to unwrap: the panic stands.
unwrap(r) == IF r.tag \in {"Some", "Ok"} THEN Ok(r.v) ELSE Panic

\* u64::checked_sub
checked_sub(a, b) == IF a >= b THEN Some(a - b) ELSE None

\* u64::checked_add
checked_add(a, b) == IF a + b <= U64_MAX THEN Some(a + b) ELSE None

\* BabeGenesisConfiguration::slots_per_epoch
slots_per_epoch(genesis_config) == genesis_config.slots_per_epoch

\* u64 `/`: the quotient, or a panic ("attempt to divide by zero").
\* Ok(quotient), or Panic.
div(a, b) == IF b = 0 THEN Panic ELSE Ok(a \div b)

(***************************************************************************)
(* fn slot_number_to_epoch(slot_number, genesis_config,                    *)
(*                         block1_slot_number) -> Result<u64, ()>          *)
(* Ok(epoch), Err(()), or Panic when slots_per_epoch is 0 and the          *)
(* division is reached.                                                    *)
(***************************************************************************)
\* The same function without the `+ 1`: the boundary rule of the module
\* documentation, (slot_number - block1_slot_number) / slots_per_epoch.
slot_number_to_epoch_no_add(slot_number, genesis_config, block1_slot_number) ==
    LET slots_diff == checked_sub(slot_number, block1_slot_number)
    IN  IF slots_diff.tag = "None" THEN Err("()")
        ELSE div(slots_diff.v, slots_per_epoch(genesis_config))

slot_number_to_epoch(slot_number, genesis_config, block1_slot_number) ==
    LET slots_diff == checked_sub(slot_number, block1_slot_number)
    IN  IF slots_diff.tag = "None" THEN Err("()")
        ELSE LET sum == checked_add(slots_diff.v, 1)
             IN  IF sum.tag = "None" THEN Err("()")
                 ELSE div(sum.v, slots_per_epoch(genesis_config))

(***************************************************************************)
(* Inputs.  A header carries its number, whether the last item of its      *)
(* digest is the seal, and what header_info::header_information yields on  *)
(* it: an error, or the pre-runtime digest (the slot claim) and the        *)
(* optional epoch-change digest.                                           *)
(***************************************************************************)
PreDigestKinds == {"Primary", "SecondaryPlain", "SecondaryVRF"}

\* The epoch-change digest of a header: a list of (public_key, weight) and
\* the randomness of the next epoch.
EpochChangeDigest == [authorities |-> <<<<"pk1", 1>>>>, randomness |-> "rnd"]

\* The pre-runtime digests of a header.
PreDigests ==
    [kind : PreDigestKinds, authority_index : 0 .. MaxAuthorities, slot_number : U64]

\* What header_information yields on the header under verification.
HeaderInfos ==
    {Err("header_info::Error")} \cup
    {Ok([pre_runtime |-> d, epoch_change |-> ec]) :
        d \in PreDigests, ec \in {None, Some(EpochChangeDigest)}}

\* The headers under verification; the genesis block is never one of them.
Headers ==
    [number : 1 .. MaxBlockNumber, seal_last : BOOLEAN, info : HeaderInfos]

\* The parent of a header of number n.  The genesis block has no BABE digest;
\* of a later parent only the slot number is read.
ParentHeaders(n) ==
    IF n = 1
    THEN {[number |-> 0, info |-> Err("header_info::Error")]}
    ELSE [number : {n - 1},
          info : {Err("header_info::Error")} \cup
                 {Ok([pre_runtime |-> [slot_number |-> s]]) : s \in U64}]

\* BabeGenesisConfiguration, of which only slots_per_epoch is read: a u64,
\* which may be 0.
GenesisConfigurations == [slots_per_epoch : 0 .. MaxSlotsPerEpoch]

\* struct VerifyConfig (now_from_unix_epoch is never read).
VerifyConfigs ==
    UNION {[header : {h},
            parent_block_header : ParentHeaders(h.number),
            genesis_configuration : GenesisConfigurations,
            block1_slot_number : {None} \cup {Some(s) : s \in U64}] : h \in Headers}

\* struct EpochInformation with n authorities.
EpochInformation(n) ==
    [authorities |-> [i \in 1 .. n |-> [public_key |-> "pk", weight |-> 1]],
     randomness |-> "rnd"]

NoConfig == [tag |-> "NoConfig"]
NoCall == [tag |-> "NoCall"]
NoResult == [tag |-> "NoResult"]

\* header_info::header_information: its result is part of the input.
header_information(header) == header.info

\* "Gather the BABE-related information": the match on header.pre_runtime.
babe_information(pre_runtime) ==
    [authority_index |-> pre_runtime.authority_index,
     slot_number |-> pre_runtime.slot_number,
     primary |-> (pre_runtime.kind = "Primary"),
     vrf |-> IF pre_runtime.kind = "SecondaryPlain" THEN None
             ELSE Some(<<"vrf_output", "vrf_proof">>)]

\* header.epoch_change.map(|(epoch_change, _)| EpochInformation { .. })
epoch_change_information(epoch_change) ==
    IF epoch_change.tag = "None" THEN None
    ELSE Some([randomness |-> epoch_change.v.randomness,
               authorities |->
                  [i \in DOMAIN epoch_change.v.authorities |->
                      [public_key |-> epoch_change.v.authorities[i][1],
                       weight |-> epoch_change.v.authorities[i][2]]]])

(***************************************************************************)
(* fn start_verify_header(config) -> Result<SuccessOrPending, VerifyError> *)
(***************************************************************************)
\* "Determine the epoch number of the block that we verify."
\* Ok(epoch), or Panic.
epoch_number(cfg, slot_number) ==
    IF cfg.block1_slot_number.tag = "Some"
    THEN unwrap(slot_number_to_epoch(slot_number, cfg.genesis_configuration,
                                     cfg.block1_slot_number.v))
    ELSE IF cfg.header.number = 1 THEN Ok(0)
    ELSE Panic

\* "Determine the epoch number of the parent block."  Ok(epoch), or Panic.
parent_epoch_number(cfg) ==
    IF cfg.parent_block_header.number # 0
    THEN LET parent_info == unwrap(header_information(cfg.parent_block_header))
         IN  IF parent_info.tag = "Panic" THEN Panic
             ELSE IF cfg.parent_block_header.number # 1
             THEN LET block1 == unwrap(cfg.block1_slot_number)
                  IN  IF block1.tag = "Panic" THEN Panic
                      ELSE unwrap(slot_number_to_epoch(
                               parent_info.v.pre_runtime.slot_number,
                               cfg.genesis_configuration, block1.v))
             ELSE Ok(0)
    ELSE Ok(0)

\* println!: the line is written to the standard output of the process, or
\* the call panics ("failed printing to stdout") when the write fails.
\* Ok(()), or Panic.
println(stdout_writable) == IF stdout_writable THEN Ok("()") ELSE Panic

\* "Make sure that the expected epoch transitions corresponds to what the
\* block reports": match (&epoch_change, epoch_number != parent_epoch_number).
\* The (Some(_), false) arm prints the number of the header before it returns
\* the error.  Ok, Err(..), or Panic.
epoch_transition_check(epoch_change, epoch_changed, stdout_writable) ==
    IF epoch_change.tag = "Some" /\ ~epoch_changed
    THEN IF println(stdout_writable).tag = "Panic" THEN Panic
         ELSE Err("UnexpectedEpochChangeLog")
    ELSE IF epoch_change.tag = "None" /\ epoch_changed
    THEN Err("MissingEpochChangeLog")
    ELSE Ok("checked")

\* struct VerifySuccess
VerifySuccess(epoch_change, slot_number) ==
    [epoch_change |-> epoch_change, slot_number |-> slot_number]

\* SuccessOrPending::Success
Success(verify_success) == [variant |-> "Success", v |-> verify_success]

\* stdout_writable tells whether a write to the standard output of the
\* process succeeds.
start_verify_header(cfg, stdout_writable) ==
    LET info == header_information(cfg.header)
    IN  IF info.tag = "Err" THEN Err("BadHeader")
        ELSE
        LET header == info.v
            babe == babe_information(header.pre_runtime)
            this_epoch == epoch_number(cfg, babe.slot_number)
        IN  IF this_epoch.tag = "Panic" THEN Panic
            ELSE
            LET parent_epoch == parent_epoch_number(cfg)
            IN  IF parent_epoch.tag = "Panic" THEN Panic
                ELSE
                LET epoch_change == epoch_change_information(header.epoch_change)
                    check == epoch_transition_check(epoch_change,
                                                    this_epoch.v # parent_epoch.v,
                                                    stdout_writable)
                IN  IF check.tag # "Ok" THEN check
                    ELSE Ok(Success(VerifySuccess(epoch_change, babe.slot_number)))

(***************************************************************************)
(* fn PendingVerify::finish(self, epoch_info)                              *)
(*        -> Result<VerifySuccess, VerifyError>                            *)
(* debug_assertions tells whether the build keeps debug_assert!.           *)
(***************************************************************************)
\* `if slot_number < parent_slot_number` in place of `<=`.
slot_number_not_increasing_strict(slot_number, parent_slot_number) ==
    slot_number < parent_slot_number

\* `if slot_number <= parent_slot_number`
slot_number_not_increasing(slot_number, parent_slot_number) ==
    slot_number <= parent_slot_number

\* "Slot number of the parent block."  Ok(slot), or Panic.
parent_slot_number(cfg) ==
    LET parent_info == unwrap(header_information(cfg.parent_block_header))
    IN  IF parent_info.tag = "Panic" THEN Panic
        ELSE Ok(parent_info.v.pre_runtime.slot_number)

\* The pre_seal_hash block: the last digest item is popped, and a debug build
\* asserts that it was the seal.  Ok(hash), or Panic.
pre_seal_hash(header, debug_assertions) ==
    IF debug_assertions /\ ~header.seal_last THEN Panic
    ELSE Ok("pre_seal_hash")

finish(cfg, epoch_info, debug_assertions) ==
    LET info == header_information(cfg.header)
    IN  IF info.tag = "Err" THEN Err("BadHeader")
        ELSE
        LET header == info.v
            babe == babe_information(header.pre_runtime)
            parent_slot == parent_slot_number(cfg)
        IN  IF parent_slot.tag = "Panic" THEN Panic
            ELSE IF slot_number_not_increasing(babe.slot_number, parent_slot.v)
            THEN Err("SlotNumberNotIncreasing")
            ELSE IF pre_seal_hash(cfg.header, debug_assertions).tag = "Panic"
            THEN Panic
            ELSE Ok(VerifySuccess(epoch_change_information(header.epoch_change),
                                  babe.slot_number))

(***************************************************************************)
(* The calls.                                                              *)
(***************************************************************************)
Init ==
    /\ pc = "ready"
    /\ config \in VerifyConfigs
    /\ call = NoCall
    /\ result = NoResult

\* start_verify_header(config), in a process whose standard output is
\* writable or not.
StartVerifyHeader ==
    /\ pc = "ready"
    /\ config # NoConfig
    /\ \E w \in BOOLEAN :
          /\ call' = [stdout_writable |-> w]
          /\ result' = start_verify_header(config, w)
    /\ pc' = "start_verify_header"
    /\ UNCHANGED config

\* The inputs of finish besides the PendingVerify: the EpochInformation,
\* whether the VRF proof of the claim (if it carries one) verifies against it,
\* and the build.
FinishCalls(cfg) ==
    LET info == header_information(cfg.header)
        has_vrf == /\ info.tag = "Ok"
                   /\ babe_information(info.v.pre_runtime).vrf.tag = "Some"
    IN  [epoch_info : {EpochInformation(n) : n \in 0 .. MaxAuthorities},
         vrf_proof_valid : IF has_vrf THEN {Some(TRUE), Some(FALSE)} ELSE {None},
         debug_assertions : BOOLEAN]

\* PendingVerify { config }.finish(epoch_info)
Finish ==
    /\ pc = "ready"
    /\ config # NoConfig
    /\ \E c \in FinishCalls(config) :
          /\ call' = c
          /\ result' = finish(config, c.epoch_info, c.debug_assertions)
    /\ pc' = "finish"
    /\ UNCHANGED config

Next == StartVerifyHeader \/ Finish

Spec == Init /\ [][Next]_vars

(***************************************************************************)
(* The calls of slot_number_to_epoch on its own.                           *)
(***************************************************************************)
InitEpoch ==
    /\ pc = "ready"
    /\ config = NoConfig
    /\ call \in [slot_number : U64,
                 genesis_config : GenesisConfigurations,
                 block1_slot_number : U64]
    /\ result = NoResult

\* slot_number_to_epoch(slot_number, genesis_config, block1_slot_number)
SlotNumberToEpoch ==
    /\ pc = "ready"
    /\ config = NoConfig
    /\ pc' = "slot_number_to_epoch"
    /\ result' = slot_number_to_epoch(call.slot_number, call.genesis_config,
                                      call.block1_slot_number)
    /\ UNCHANGED <<config, call>>

NextEpoch == SlotNumberToEpoch

SpecEpoch == InitEpoch /\ [][NextEpoch]_vars

(***************************************************************************)
(* The inputs of the call in the current state, and the epochs of the      *)
(* header and of its parent stated arithmetically.                         *)
(***************************************************************************)
HeaderExtracted == config.header.info.tag = "Ok"
ParentExtracted == config.parent_block_header.info.tag = "Ok"
HeaderSlot == config.header.info.v.pre_runtime.slot_number
ParentSlot == config.parent_block_header.info.v.pre_runtime.slot_number
HasEpochChange == config.header.info.v.epoch_change.tag = "Some"
SlotsPerEpoch == config.genesis_configuration.slots_per_epoch
Block1Known == config.block1_slot_number.tag = "Some"
Block1Slot == config.block1_slot_number.v

EpochDefined(slot, block1) == slot >= block1 /\ slot - block1 + 1 <= U64_MAX
EpochOf(slot, spe, block1) == (slot - block1 + 1) \div spe

\* The epoch of the header can be computed: from block1_slot_number when it is
\* given (the slot is not below it, the addition does not overflow and
\* slots_per_epoch is not 0), by the rule of block #1 when it is not.
HeaderEpochComputable ==
    IF Block1Known THEN EpochDefined(HeaderSlot, Block1Slot) /\ SlotsPerEpoch >= 1
    ELSE config.header.number = 1
HeaderEpoch ==
    IF Block1Known THEN EpochOf(HeaderSlot, SlotsPerEpoch, Block1Slot) ELSE 0

\* The epoch of the parent can be computed: 0 for the genesis block and block
\* #1, from its slot number otherwise.
ParentEpochComputable ==
    \/ config.parent_block_header.number = 0
    \/ config.parent_block_header.number = 1 /\ ParentExtracted
    \/ /\ config.parent_block_header.number > 1
       /\ ParentExtracted
       /\ Block1Known
       /\ EpochDefined(ParentSlot, Block1Slot)
       /\ SlotsPerEpoch >= 1
ParentEpoch ==
    IF config.parent_block_header.number \in {0, 1} THEN 0
    ELSE EpochOf(ParentSlot, SlotsPerEpoch, Block1Slot)

EpochsComputable == HeaderExtracted /\ HeaderEpochComputable /\ ParentEpochComputable

(***************************************************************************)
(* The claims.                                                             *)
(***************************************************************************)

\* C1: when the digests of the header are extracted and both epochs can be
\* computed, start_verify_header returns UnexpectedEpochChangeLog if the header
\* carries an epoch-change digest and the epochs are equal, returns
\* MissingEpochChangeLog if it carries none and the epochs differ, returns
\* neither otherwise, and a successful result has epoch_change present exactly
\* when the epochs differ.
C1_EpochChangeCheck ==
    (pc = "start_verify_header" /\ EpochsComputable) =>
        /\ (HasEpochChange /\ HeaderEpoch = ParentEpoch)
              => result = Err("UnexpectedEpochChangeLog")
        /\ (~HasEpochChange /\ HeaderEpoch # ParentEpoch)
              => result = Err("MissingEpochChangeLog")
        /\ (HasEpochChange <=> HeaderEpoch # ParentEpoch)
              => result \notin {Err("UnexpectedEpochChangeLog"),
                                Err("MissingEpochChangeLog")}
        /\ result.tag = "Ok"
              => (result.v.v.epoch_change.tag = "Some" <=> HeaderEpoch # ParentEpoch)

\* C2: an accepted (parent, child) pair whose parent is not the genesis block
\* has slot_number(child) > slot_number(parent), whether start_verify_header
\* or finish accepted it.
C2_SlotIncreasesWhenAccepted ==
    (/\ pc \in {"start_verify_header", "finish"}
     /\ result.tag = "Ok"
     /\ config.parent_block_header.number # 0
     /\ ParentExtracted)
        => HeaderSlot > ParentSlot

\* C3: start_verify_header returns Success directly only for a header of epoch
\* 0 or 1.
C3_SuccessOnlyInEpoch0Or1 ==
    (/\ pc = "start_verify_header"
     /\ result.tag = "Ok"
     /\ result.v.variant = "Success")
        => HeaderEpoch \in {0, 1}

\* C4: finish returns Ok only when the authority_index of the claim is smaller
\* than the number of authorities of epoch_info and the VRF proof of the
\* claim, if it carries one, verifies.
C4_FinishValidatesClaim ==
    (pc = "finish" /\ result.tag = "Ok") =>
        /\ config.header.info.v.pre_runtime.authority_index
              < Len(call.epoch_info.authorities)
        /\ call.vrf_proof_valid # Some(FALSE)

\* C5: start_verify_header returns a value (Success, Pending or a VerifyError)
\* for every input; it never panics.
C5_StartNeverPanics ==
    pc = "start_verify_header" => result.tag \in {"Ok", "Err"}

\* C6: for slots_per_epoch >= 1, slot_number_to_epoch returns
\* floor((slot_number - block1_slot_number + 1) / slots_per_epoch) when
\* slot_number >= block1_slot_number and the addition does not overflow, and
\* an error otherwise.
C6_EpochFormula ==
    (pc = "slot_number_to_epoch" /\ call.genesis_config.slots_per_epoch >= 1) =>
        result = IF EpochDefined(call.slot_number, call.block1_slot_number)
                 THEN Ok(EpochOf(call.slot_number,
                                 call.genesis_config.slots_per_epoch,
                                 call.block1_slot_number))
                 ELSE Err("()")

\* The last slot before block1_slot_number + slots_per_epoch is mapped to
\* epoch 1 (as slot 109 is with 10 slots per epoch and block #1 at slot 100).
C6_Witness ==
    /\ pc = "slot_number_to_epoch"
    /\ call.genesis_config.slots_per_epoch > 1
    /\ call.slot_number
          = call.block1_slot_number + call.genesis_config.slots_per_epoch - 1
    /\ result = Ok(1)

\* C7: for slots_per_epoch >= 1, slot_number_to_epoch maps the slots block1_slot_number ..
\* block1_slot_number + slots_per_epoch - 1 to epoch 0, and for n >= 1 exactly
\* the slots block1_slot_number + n * slots_per_epoch ..
\* block1_slot_number + (n + 1) * slots_per_epoch - 1 to epoch n.
C7_EpochBoundaries ==
    (pc = "slot_number_to_epoch" /\ call.genesis_config.slots_per_epoch >= 1) =>
        LET s == call.slot_number
            b == call.block1_slot_number
            spe == call.genesis_config.slots_per_epoch
        IN  /\ (b <= s /\ s <= b + spe - 1) => result = Ok(0)
            /\ \A n \in 1 .. U64_MAX :
                  (b + n * spe <= s /\ s <= b + (n + 1) * spe - 1)
                      <=> result = Ok(n)

\* C8: on a header of number 1, whatever its slot number, its
\* block1_slot_number and its slots_per_epoch >= 1, start_verify_header takes
\* the epoch of the header to be 0: it succeeds when the header carries no epoch-change digest and
\* returns UnexpectedEpochChangeLog when it carries one.
C8_Block1InEpoch0 ==
    (/\ pc = "start_verify_header"
     /\ config.header.number = 1
     /\ SlotsPerEpoch >= 1
     /\ HeaderExtracted)
        => IF HasEpochChange
           THEN result = Err("UnexpectedEpochChangeLog")
           ELSE result.tag = "Ok"

\* C9: when the pre-runtime digests of the header and of its parent are
\* extracted, finish returns SlotNumberNotIncreasing if slot_number(header) <=
\* slot_number(parent) and never if slot_number(header) > slot_number(parent);
\* when it returns Ok, the slot_number of the VerifySuccess is the one claimed
\* in the header.
C9_FinishSlotCheck ==
    (pc = "finish" /\ HeaderExtracted /\ ParentExtracted) =>
        /\ HeaderSlot <= ParentSlot => result = Err("SlotNumberNotIncreasing")
        /\ HeaderSlot > ParentSlot => result # Err("SlotNumberNotIncreasing")
        /\ result.tag = "Ok" => result.v.slot_number = HeaderSlot

\* finish has rejected a header that claims the slot of its parent.
C9_Witness ==
    /\ pc = "finish"
    /\ HeaderExtracted
    /\ ParentExtracted
    /\ HeaderSlot = ParentSlot
    /\ result = Err("SlotNumberNotIncreasing")

\* C10: finish applies the epoch-change check of start_verify_header, so it
\* returns Ok only when the header carries an epoch-change digest exactly when
\* the epochs of the header and of its parent differ.
C10_FinishEpochChangeCheck ==
    (pc = "finish" /\ EpochsComputable /\ result.tag = "Ok") =>
        (HasEpochChange <=> HeaderEpoch # ParentEpoch)

====
